---------------------------- MODULE Spec2Model ----------------------------
(***************************************************************************)
(* Multi-channel A/D converter with running hysteresis and running        *)
(* average (adc.c): the acquisition task task_adc, the conversion-done    *)
(* callback, the mutex-protected accessor API and the NVS persistence of  *)
(* the per-channel calibration.                                           *)
(*                                                                         *)
(* uint32_t values are represented by their two's-complement reading as   *)
(* a 32-bit signed integer (TLC's own integer width): 0 .. 2^31-1 stand   *)
(* for themselves and a negative v stands for the unsigned value          *)
(* v + 2^32.  Addition and subtraction modulo 2^32 are then the signed    *)
(* operations, and the unsigned order is U32Lt below.                     *)
(***************************************************************************)
EXTENDS Integers, Sequences, FiniteSets, TLC

(* ---------------- program constants ---------------- *)

ADC_MAX_CHANNELS == 2

RUNNING_AVG_SIZE == 10

ADC_MAX == 4096

HYST_LIMIT == 1000

CONFIG_ADC_CH_MIN == 0

CONFIG_ADC_CH_MAX == 4095

CONFIG_ADC_HYSTERESIS == 40

(* physical_channels[ch] & 0x7 for logical channel ch *)
physical_channels == [ch \in 0 .. (ADC_MAX_CHANNELS - 1) |-> IF ch = 0 THEN 6 ELSE 7]

(* ---------------- bounds of the model ---------------- *)

MaxFrames == 1

MaxCalls == 2

MaxBoots == 2

MaxFaults == 1

\* the filter specification: more samples, one call
MaxFilterFrames == 3

MaxFilterCalls == 1

MaxWorkerFrames == 2

MaxWorkerCalls == 1

MaxLifecycleCalls == 1

MaxOrderFrames == 6

MaxOrderCalls == 1

(* ---------------- uint32_t arithmetic ---------------- *)

U32Lt(a, b) == IF (a >= 0) = (b >= 0) THEN a < b ELSE a >= 0

U32Le(a, b) == a = b \/ U32Lt(a, b)

\* every operand of the program stays within +-2^30, so the signed sum and
\* difference are exactly the sum and difference modulo 2^32
U32Add(a, b) == a + b

U32Sub(a, b) == a - b

\* unsigned division by two
U32Half(a) == IF a >= 0 THEN a \div 2 ELSE (2147483647 + (a \div 2)) + 1

MIN(a, b) == IF U32Lt(a, b) THEN a ELSE b

MAX(a, b) == IF U32Lt(b, a) THEN a ELSE b

Channels == 0 .. (ADC_MAX_CHANNELS - 1)

\* chk_chn that is off by one
chk_chn_le(channel) == channel <= ADC_MAX_CHANNELS

chk_chn(channel) == channel < ADC_MAX_CHANNELS

(* ---------------- the two filters ---------------- *)

\* running_hyst that reports a sample within the window as it came
running_hyst_track(cd, input) ==
    LET hyst == cd.r_hyst IN
    IF U32Le(input, hyst.max) /\ U32Le(hyst.min, input)
    THEN [out |-> input, hyst |-> hyst]
    ELSE IF U32Lt(hyst.max, input)
    THEN LET newmax == MIN(U32Add(input, U32Half(hyst.hysteresis)), cd.max_cal)
             newmin == IF U32Lt(hyst.hysteresis, newmax)
                       THEN U32Sub(newmax, hyst.hysteresis) ELSE 0
         IN [out  |-> input,
             hyst |-> [hyst EXCEPT !.max = newmax, !.min = newmin]]
    ELSE LET newmin == MAX(U32Sub(input, U32Half(hyst.hysteresis)), cd.min_cal)
             newmax == MIN(U32Add(newmin, hyst.hysteresis), cd.max_cal)
         IN [out  |-> input,
             hyst |-> [hyst EXCEPT !.min = newmin, !.max = newmax]]

\* running_hyst whose upward slide clamps to ADC_MAX instead of the
\* channel's calibration maximum
running_hyst_adcmax(cd, input) ==
    LET hyst == cd.r_hyst IN
    IF U32Le(input, hyst.max) /\ U32Le(hyst.min, input)
    THEN [out  |-> U32Add(hyst.min, U32Half(U32Sub(hyst.max, hyst.min))),
          hyst |-> hyst]
    ELSE IF U32Lt(hyst.max, input)
    THEN LET newmax == MIN(U32Add(input, U32Half(hyst.hysteresis)), ADC_MAX)
             newmin == IF U32Lt(hyst.hysteresis, newmax)
                       THEN U32Sub(newmax, hyst.hysteresis) ELSE 0
         IN [out  |-> input,
             hyst |-> [hyst EXCEPT !.max = newmax, !.min = newmin]]
    ELSE LET newmin == MAX(U32Sub(input, U32Half(hyst.hysteresis)), cd.min_cal)
             newmax == MIN(U32Add(newmin, hyst.hysteresis), cd.max_cal)
         IN [out  |-> input,
             hyst |-> [hyst EXCEPT !.min = newmin, !.max = newmax]]

\* running_hyst: the value returned and the r_hyst it leaves, for the
\* channel record cd and the sample input
running_hyst(cd, input) ==
    LET hyst == cd.r_hyst IN
    IF U32Le(input, hyst.max) /\ U32Le(hyst.min, input)
    THEN [out  |-> U32Add(hyst.min, U32Half(U32Sub(hyst.max, hyst.min))),
          hyst |-> hyst]
    ELSE IF U32Lt(hyst.max, input)
    THEN LET newmax == MIN(U32Add(input, U32Half(hyst.hysteresis)), cd.max_cal)
             newmin == IF U32Lt(hyst.hysteresis, newmax)
                       THEN U32Sub(newmax, hyst.hysteresis) ELSE 0
         IN [out  |-> input,
             hyst |-> [hyst EXCEPT !.max = newmax, !.min = newmin]]
    ELSE LET newmin == MAX(U32Sub(input, U32Half(hyst.hysteresis)), cd.min_cal)
             newmax == MIN(U32Add(newmin, hyst.hysteresis), cd.max_cal)
         IN [out  |-> input,
             hyst |-> [hyst EXCEPT !.min = newmin, !.max = newmax]]

RECURSIVE SumSeq(_)
SumSeq(s) == IF s = <<>> THEN 0 ELSE Head(s) + SumSeq(Tail(s))

\* running_average that returns the sum of the buffer, not its mean
running_average_sum(avg, input) ==
    LET q == [avg.queue EXCEPT ![avg.ptr + 1] = input]
    IN [out |-> SumSeq(q),
        avg |-> [queue |-> q, ptr |-> (avg.ptr + 1) % RUNNING_AVG_SIZE]]

\* running_average that advances the cursor before it writes the slot
running_average_preinc(avg, input) ==
    LET p == (avg.ptr + 1) % RUNNING_AVG_SIZE
        q == [avg.queue EXCEPT ![p + 1] = input]
    IN [out |-> SumSeq(q) \div RUNNING_AVG_SIZE,
        avg |-> [queue |-> q, ptr |-> p]]

\* running_average: the value returned and the r_avg it leaves
\* (queue[i] of the program is queue[i + 1] here)
running_average(avg, input) ==
    LET q == [avg.queue EXCEPT ![avg.ptr + 1] = input]
    IN [out |-> SumSeq(q) \div RUNNING_AVG_SIZE,
        avg |-> [queue |-> q, ptr |-> (avg.ptr + 1) % RUNNING_AVG_SIZE]]

(* ---------------- state ---------------- *)

VARIABLES
    channel_data,   \* adc_channel_data_t channel_data[ADC_MAX_CHANNELS]
    errors,         \* the error statistics
    adc_mutex,      \* TRUE when adc_mutex is a created semaphore, FALSE when NULL
    holder,         \* the context that holds adc_mutex, or NoHolder
    task_handle,    \* TRUE when task_handle refers to the created task
    handle,         \* TRUE when the continuous-ADC handle is not NULL
    notify,         \* the task notification value of task_adc
    pool,           \* the driver's buffer of converted samples not yet read
    worker,         \* task_adc: its position and locals
    caller,         \* the tasks that call the accessor API: position, arguments, outputs
    nvs,            \* the contents of the NVS namespace "adc_storage"
    app,            \* the task that calls adc_init and adc_deinit: its position
    budget,         \* what the environment may still do: frames, calls, boots, faults
    seen            \* history: the configurations each channel record has held

vars == <<channel_data, errors, adc_mutex, holder, task_handle, handle, notify,
          pool, worker, caller, nvs, app, budget, seen>>

NoHolder == "none"

\* an output not written, a key not stored; a value v that is there is <<v>>
NoVal == <<>>

Callers == {"t1", "t2"}

ZeroChannel ==
    [raw_value |-> 0, normalized_value |-> 0,
     r_hyst |-> [min |-> 0, max |-> 0, hysteresis |-> 0],
     r_avg |-> [queue |-> [i \in 1 .. RUNNING_AVG_SIZE |-> 0], ptr |-> 0],
     min_cal |-> 0, max_cal |-> 0]

ZeroErrors == [conversions |-> 0, invalid_channel |-> 0, read_errors |-> 0, timeout |-> 0]

NvsKeys == Channels \X {"min", "max", "hyst"}

\* pc is "none" while the task does not exist or has not started the converter
\* ret is what the last adc_continuous_read returned
IdleWorker == [pc |-> "none", batch |-> <<>>, ch |-> 0, raw |-> 0, hout |-> 0, avg |-> 0,
               ret |-> "none"]

\* saved is the values the call has passed to nvs_set_u32, in their order
IdleCaller == [pc |-> "idle", op |-> "none", channel |-> 0, a |-> 0, b |-> 0,
               null |-> FALSE, out1 |-> NoVal, out2 |-> NoVal, ret |-> "none",
               saved |-> <<>>]

\* the configuration of a channel record: what save_channel_config stores
Config(cd) == <<cd.min_cal, cd.max_cal, cd.r_hyst.hysteresis>>

\* the history variable seen gets the configuration every record has after
\* the step
Remember ==
    seen' = [ch \in Channels |-> seen[ch] \cup {Config(channel_data'[ch])}]

\* static storage is zero-initialised; the flash holds no saved configuration;
\* b is what the environment may do
InitWith(b) ==
    /\ channel_data = [ch \in Channels |-> ZeroChannel]
    /\ errors = ZeroErrors
    /\ adc_mutex = FALSE
    /\ holder = NoHolder
    /\ task_handle = FALSE
    /\ handle = FALSE
    /\ notify = 0
    /\ pool = <<>>
    /\ worker = IdleWorker
    /\ caller = [t \in Callers |-> IdleCaller]
    /\ nvs = [k \in NvsKeys |-> NoVal]
    /\ app = "boot"
    /\ budget = b
    /\ seen = [ch \in Channels |-> {Config(ZeroChannel)}]

Init == InitWith([frames |-> MaxFrames, calls |-> MaxCalls, boots |-> MaxBoots,
                  faults |-> MaxFaults])

(* ---------------- inputs of the model ---------------- *)

Sample(c, d) == [channel |-> c, data |-> d]

\* the conversion frames the converter delivers: channel 6 and 7 are
\* configured, channel 4 is not
Frames ==
    { <<Sample(6, 2000), Sample(6, 2010)>>,
      <<Sample(4, 5), Sample(7, 10)>> }

\* samples handed over by one adc_continuous_read (READ_BUFFER_SIZE bytes)
FrameSamples == 2

Arg(o, c, x, y, n) == [op |-> o, channel |-> c, a |-> x, b |-> y, null |-> n]

\* the accessor calls the other tasks make
CallSet ==
    { Arg("get_raw", 0, 0, 0, FALSE),
      Arg("get_normalized", 0, 0, 0, FALSE),
      Arg("get_calibration", 0, 0, 0, FALSE),
      Arg("get_hysteresis", 0, 0, 0, FALSE),
      Arg("set_calibration", 0, 100, 120, FALSE),
      Arg("set_calibration", 0, 300, 4096, FALSE),
      Arg("set_hysteresis", 0, 1000, 0, FALSE),
      Arg("set_hysteresis", 0, 1001, 0, FALSE) }

(* ---------------- adc_init ---------------- *)

\* load_channel_config: every key found in the flash overrides the field
load_channel_config(cd, ch) ==
    [cd EXCEPT !.min_cal = IF nvs[<<ch, "min">>] = NoVal THEN @ ELSE nvs[<<ch, "min">>][1],
               !.max_cal = IF nvs[<<ch, "max">>] = NoVal THEN @ ELSE nvs[<<ch, "max">>][1],
               !.r_hyst.hysteresis =
                   IF nvs[<<ch, "hyst">>] = NoVal THEN @ ELSE nvs[<<ch, "hyst">>][1]]

\* the defaults adc_init gives a channel before it loads the saved values
DefaultChannel ==
    [ZeroChannel EXCEPT !.min_cal = CONFIG_ADC_CH_MIN,
                        !.max_cal = CONFIG_ADC_CH_MAX,
                        !.r_hyst = [min |-> CONFIG_ADC_CH_MIN,
                                    max |-> U32Add(CONFIG_ADC_CH_MIN, CONFIG_ADC_HYSTERESIS),
                                    hysteresis |-> CONFIG_ADC_HYSTERESIS]]

adc_init ==
    /\ app \in {"boot", "stopped", "failed"}
    /\ budget.boots > 0
    /\ adc_mutex' = TRUE
    /\ holder' = NoHolder
    /\ handle' = TRUE
    /\ errors' = ZeroErrors
    /\ channel_data' = [ch \in Channels |-> load_channel_config(DefaultChannel, ch)]
    /\ task_handle' = TRUE
    /\ worker' = [IdleWorker EXCEPT !.pc = "start"]
    /\ notify' = 0
    /\ pool' = <<>>
    /\ app' = "run"
    /\ budget' = [budget EXCEPT !.boots = @ - 1]
    /\ UNCHANGED <<caller, nvs>>
    /\ Remember

(* ---------------- the converter and its callback ---------------- *)

\* a failed configASSERT or ESP_ERROR_CHECK aborts the firmware: no task runs on
Panic ==
    /\ app' = "halt"
    /\ worker' = [worker EXCEPT !.pc = "halt"]
    /\ caller' = [t \in Callers |-> [caller[t] EXCEPT !.pc = "halt"]]
    /\ handle' = FALSE

\* s_conv_done_cb: vTaskNotifyGiveFromISR(task_handle, ...)
s_conv_done_cb == notify' = notify + 1

\* HwConvert with a callback that also counts the frame in errors.conversions
HwConvert_counting(frame) ==
    /\ handle
    /\ worker.pc \notin {"none", "start"}
    /\ budget.frames > 0
    /\ budget' = [budget EXCEPT !.frames = @ - 1]
    /\ IF task_handle
       THEN /\ s_conv_done_cb
            /\ pool' = pool \o frame
            /\ errors' = [errors EXCEPT !.conversions = @ + 1]
            /\ UNCHANGED <<worker, caller, app, handle>>
       ELSE /\ Panic
            /\ UNCHANGED <<notify, pool, errors>>
    /\ UNCHANGED <<channel_data, adc_mutex, holder, task_handle, nvs>>
    /\ Remember

\* the converter completes a frame: the driver stores it and calls the
\* on_conv_done callback from its interrupt handler
HwConvert(frame) ==
    /\ handle
    /\ worker.pc \notin {"none", "start"}
    /\ budget.frames > 0
    /\ budget' = [budget EXCEPT !.frames = @ - 1]
    /\ IF task_handle
       THEN /\ s_conv_done_cb
            /\ pool' = pool \o frame
            /\ UNCHANGED <<worker, caller, app, handle>>
       ELSE /\ Panic
            /\ UNCHANGED <<notify, pool>>
    /\ UNCHANGED <<channel_data, errors, adc_mutex, holder, task_handle, nvs>>
    /\ Remember

(* ---------------- task_adc ---------------- *)

\* adc_continuous_start(handle)
W_start ==
    /\ worker.pc = "start"
    /\ worker' = [worker EXCEPT !.pc = "wait"]
    /\ UNCHANGED <<channel_data, errors, adc_mutex, holder, task_handle, handle,
                   notify, pool, caller, nvs, app, budget>>
    /\ Remember

\* ulTaskNotifyTake(pdTRUE, portMAX_DELAY)
W_wait ==
    /\ worker.pc = "wait"
    /\ notify > 0
    /\ notify' = 0
    /\ worker' = [worker EXCEPT !.pc = "read"]
    /\ UNCHANGED <<channel_data, errors, adc_mutex, holder, task_handle, handle,
                   pool, caller, nvs, app, budget>>
    /\ Remember

Take(n, s) == SubSeq(s, 1, IF Len(s) < n THEN Len(s) ELSE n)

Drop(n, s) == SubSeq(s, (IF Len(s) < n THEN Len(s) ELSE n) + 1, Len(s))

\* the results adc_continuous_read can give with a wait of 0 ticks
ReadResults ==
    (IF pool # <<>> THEN {"ESP_OK"} ELSE {"ESP_ERR_TIMEOUT"})
    \cup (IF budget.faults > 0
          THEN {"ESP_ERR_TIMEOUT", "ESP_ERR_INVALID_STATE"} ELSE {})

\* W_read with the two failure counters exchanged
W_read_swapped(ret) ==
    /\ worker.pc = "read"
    /\ ret \in ReadResults
    /\ IF ret = "ESP_OK"
       THEN /\ errors' = [errors EXCEPT !.conversions = @ + 1]
            /\ worker' = [worker EXCEPT !.pc = "demux", !.ret = ret,
                                        !.batch = Take(FrameSamples, pool)]
            /\ pool' = Drop(FrameSamples, pool)
            /\ UNCHANGED budget
       ELSE /\ errors' = IF ret = "ESP_ERR_TIMEOUT"
                         THEN [errors EXCEPT !.read_errors = @ + 1]
                         ELSE [errors EXCEPT !.timeout = @ + 1]
            /\ worker' = [worker EXCEPT !.pc = "wait", !.ret = ret]
            /\ budget' = IF ret = "ESP_ERR_TIMEOUT" /\ pool = <<>>
                         THEN budget ELSE [budget EXCEPT !.faults = @ - 1]
            /\ UNCHANGED pool
    /\ UNCHANGED <<channel_data, adc_mutex, holder, task_handle, handle, notify,
                   caller, nvs, app>>
    /\ Remember

\* W_read that leaves the samples it has read in the driver's buffer
W_read_peek(ret) ==
    /\ worker.pc = "read"
    /\ ret \in ReadResults
    /\ IF ret = "ESP_OK"
       THEN /\ errors' = [errors EXCEPT !.conversions = @ + 1]
            /\ worker' = [worker EXCEPT !.pc = "demux", !.ret = ret,
                                        !.batch = Take(FrameSamples, pool)]
            /\ pool' = pool
            /\ UNCHANGED budget
       ELSE /\ errors' = IF ret = "ESP_ERR_TIMEOUT"
                         THEN [errors EXCEPT !.timeout = @ + 1]
                         ELSE [errors EXCEPT !.read_errors = @ + 1]
            /\ worker' = [worker EXCEPT !.pc = "wait", !.ret = ret]
            /\ budget' = IF ret = "ESP_ERR_TIMEOUT" /\ pool = <<>>
                         THEN budget ELSE [budget EXCEPT !.faults = @ - 1]
            /\ UNCHANGED pool
    /\ UNCHANGED <<channel_data, adc_mutex, holder, task_handle, handle, notify,
                   caller, nvs, app>>
    /\ Remember

\* ret = adc_continuous_read(handle, result, READ_BUFFER_SIZE, &ret_num, 0)
W_read(ret) ==
    /\ worker.pc = "read"
    /\ ret \in ReadResults
    /\ IF ret = "ESP_OK"
       THEN /\ errors' = [errors EXCEPT !.conversions = @ + 1]
            /\ worker' = [worker EXCEPT !.pc = "demux", !.ret = ret,
                                        !.batch = Take(FrameSamples, pool)]
            /\ pool' = Drop(FrameSamples, pool)
            /\ UNCHANGED budget
       ELSE /\ errors' = IF ret = "ESP_ERR_TIMEOUT"
                         THEN [errors EXCEPT !.timeout = @ + 1]
                         ELSE [errors EXCEPT !.read_errors = @ + 1]
            /\ worker' = [worker EXCEPT !.pc = "wait", !.ret = ret]
            /\ budget' = IF ret = "ESP_ERR_TIMEOUT" /\ pool = <<>>
                         THEN budget ELSE [budget EXCEPT !.faults = @ - 1]
            /\ UNCHANGED pool
    /\ UNCHANGED <<channel_data, adc_mutex, holder, task_handle, handle, notify,
                   caller, nvs, app>>
    /\ Remember

\* the channels whose physical channel is the one of the sample
Matching(smp) == {ch \in Channels : physical_channels[ch] = smp.channel}

\* W_demux that gives a sample of no configured channel to channel 0
W_demux_fallback ==
    /\ worker.pc = "demux"
    /\ IF worker.batch = <<>>
       THEN worker' = [worker EXCEPT !.pc = "wait"]
       ELSE IF Matching(Head(worker.batch)) = {}
       THEN worker' = [worker EXCEPT !.pc = "take", !.ch = 0]
       ELSE worker' = [worker EXCEPT !.pc = "take",
                          !.ch = CHOOSE ch \in Matching(Head(worker.batch)) :
                                    \A o \in Matching(Head(worker.batch)) : ch <= o]
    /\ UNCHANGED <<channel_data, errors, adc_mutex, holder, task_handle, handle,
                   notify, pool, caller, nvs, app, budget>>
    /\ Remember

\* the loops over the samples of the buffer and over the channel table
W_demux ==
    /\ worker.pc = "demux"
    /\ IF worker.batch = <<>>
       THEN worker' = [worker EXCEPT !.pc = "wait"]
       ELSE IF Matching(Head(worker.batch)) = {}
       THEN worker' = [worker EXCEPT !.batch = Tail(@)]
       ELSE worker' = [worker EXCEPT !.pc = "take",
                          !.ch = CHOOSE ch \in Matching(Head(worker.batch)) :
                                    \A o \in Matching(Head(worker.batch)) : ch <= o]
    /\ UNCHANGED <<channel_data, errors, adc_mutex, holder, task_handle, handle,
                   notify, pool, caller, nvs, app, budget>>
    /\ Remember

\* xSemaphoreTake(adc_mutex, pdMS_TO_TICKS(10)) == pdTRUE
W_take ==
    /\ worker.pc = "take"
    /\ holder = NoHolder
    /\ holder' = "worker"
    /\ worker' = [worker EXCEPT !.pc = "raw", !.raw = Head(worker.batch).data]
    /\ UNCHANGED <<channel_data, errors, adc_mutex, task_handle, handle, notify,
                   pool, caller, nvs, app, budget>>
    /\ Remember

\* W_take_timeout that puts the sample back into the driver's buffer
W_take_timeout_requeue ==
    /\ worker.pc = "take"
    /\ holder # NoHolder
    /\ worker' = [worker EXCEPT !.pc = "demux", !.batch = Tail(@), !.ch = 0]
    /\ pool' = pool \o <<Head(worker.batch)>>
    /\ UNCHANGED <<channel_data, errors, adc_mutex, holder, task_handle, handle,
                   notify, caller, nvs, app, budget>>
    /\ Remember

\* xSemaphoreTake times out: the sample is skipped
W_take_timeout ==
    /\ worker.pc = "take"
    /\ holder # NoHolder
    /\ worker' = [worker EXCEPT !.pc = "demux", !.batch = Tail(@), !.ch = 0]
    /\ UNCHANGED <<channel_data, errors, adc_mutex, holder, task_handle, handle,
                   notify, pool, caller, nvs, app, budget>>
    /\ Remember

\* W_raw that always writes the record of channel 0
W_raw_first_channel ==
    /\ worker.pc = "raw"
    /\ channel_data' = [channel_data EXCEPT ![0].raw_value = worker.raw]
    /\ worker' = [worker EXCEPT !.pc = "hyst"]
    /\ UNCHANGED <<errors, adc_mutex, holder, task_handle, handle, notify, pool,
                   caller, nvs, app, budget>>
    /\ Remember

\* channel_data[ch].raw_value = raw
W_raw ==
    /\ worker.pc = "raw"
    /\ channel_data' = [channel_data EXCEPT ![worker.ch].raw_value = worker.raw]
    /\ worker' = [worker EXCEPT !.pc = "hyst"]
    /\ UNCHANGED <<errors, adc_mutex, holder, task_handle, handle, notify, pool,
                   caller, nvs, app, budget>>
    /\ Remember

\* running_hyst(ch, raw)
W_hyst ==
    /\ worker.pc = "hyst"
    /\ LET r == running_hyst(channel_data[worker.ch], worker.raw)
       IN /\ channel_data' = [channel_data EXCEPT ![worker.ch].r_hyst = r.hyst]
          /\ worker' = [worker EXCEPT !.pc = "avg", !.hout = r.out]
    /\ UNCHANGED <<errors, adc_mutex, holder, task_handle, handle, notify, pool,
                   caller, nvs, app, budget>>
    /\ Remember

\* running_average(ch, ...)
W_avg ==
    /\ worker.pc = "avg"
    /\ LET r == running_average(channel_data[worker.ch].r_avg, worker.hout)
       IN /\ channel_data' = [channel_data EXCEPT ![worker.ch].r_avg = r.avg]
          /\ worker' = [worker EXCEPT !.pc = "norm", !.avg = r.out]
    /\ UNCHANGED <<errors, adc_mutex, holder, task_handle, handle, notify, pool,
                   caller, nvs, app, budget>>
    /\ Remember

\* W_norm that stores the output of running_hyst, not the average
W_norm_unaveraged ==
    /\ worker.pc = "norm"
    /\ channel_data' = [channel_data EXCEPT ![worker.ch].normalized_value = worker.hout]
    /\ worker' = [worker EXCEPT !.pc = "give"]
    /\ UNCHANGED <<errors, adc_mutex, holder, task_handle, handle, notify, pool,
                   caller, nvs, app, budget>>
    /\ Remember

\* channel_data[ch].normalized_value = ...
W_norm ==
    /\ worker.pc = "norm"
    /\ channel_data' = [channel_data EXCEPT ![worker.ch].normalized_value = worker.avg]
    /\ worker' = [worker EXCEPT !.pc = "give"]
    /\ UNCHANGED <<errors, adc_mutex, holder, task_handle, handle, notify, pool,
                   caller, nvs, app, budget>>
    /\ Remember

\* W_give without the xSemaphoreGive
W_give_kept ==
    /\ worker.pc = "give"
    /\ holder' = holder
    /\ worker' = [worker EXCEPT !.pc = "demux", !.batch = Tail(@), !.ch = 0,
                                !.raw = 0, !.hout = 0, !.avg = 0]
    /\ UNCHANGED <<channel_data, errors, adc_mutex, task_handle, handle, notify,
                   pool, caller, nvs, app, budget>>
    /\ Remember

\* xSemaphoreGive(adc_mutex); break
W_give ==
    /\ worker.pc = "give"
    /\ holder' = IF holder = "worker" THEN NoHolder ELSE holder
    /\ worker' = [worker EXCEPT !.pc = "demux", !.batch = Tail(@), !.ch = 0,
                                !.raw = 0, !.hout = 0, !.avg = 0]
    /\ UNCHANGED <<channel_data, errors, adc_mutex, task_handle, handle, notify,
                   pool, caller, nvs, app, budget>>
    /\ Remember

task_adc ==
    \/ W_start \/ W_wait \/ (\E ret \in ReadResults : W_read(ret)) \/ W_demux
    \/ W_take \/ W_take_timeout \/ W_raw \/ W_hyst \/ W_avg \/ W_norm \/ W_give

(* ---------------- the accessor API ---------------- *)

GetOps == {"get_raw", "get_normalized", "get_calibration", "get_hysteresis"}

SetOps == {"set_calibration", "set_hysteresis"}

\* InvalidArg with min > max in place of min >= max
InvalidArg_gt(c) ==
    \/ ~chk_chn(c.channel)
    \/ c.op \in GetOps /\ c.null
    \/ c.op = "set_calibration" /\ (U32Lt(c.b, c.a) \/ U32Lt(ADC_MAX, c.b))
    \/ c.op = "set_hysteresis" /\ (c.a = 0 \/ U32Lt(HYST_LIMIT, c.a))

\* InvalidArg with hysteresis >= 1000 in place of hysteresis > 1000
InvalidArg_ge(c) ==
    \/ ~chk_chn(c.channel)
    \/ c.op \in GetOps /\ c.null
    \/ c.op = "set_calibration" /\ (U32Le(c.b, c.a) \/ U32Lt(ADC_MAX, c.b))
    \/ c.op = "set_hysteresis" /\ (c.a = 0 \/ U32Le(HYST_LIMIT, c.a))

\* the argument check every accessor starts with
InvalidArg(c) ==
    \/ ~chk_chn(c.channel)
    \/ c.op \in GetOps /\ c.null
    \/ c.op = "set_calibration" /\ (U32Le(c.b, c.a) \/ U32Lt(ADC_MAX, c.b))
    \/ c.op = "set_hysteresis" /\ (c.a = 0 \/ U32Lt(HYST_LIMIT, c.a))

\* the first statement of each accessor's critical section
FirstStep(op) ==
    CASE op = "get_raw" -> "r_raw"
      [] op = "get_normalized" -> "r_norm"
      [] op = "get_calibration" -> "r_min"
      [] op = "get_hysteresis" -> "r_hyst"
      [] op = "set_calibration" -> "w_min"
      [] op = "set_hysteresis" -> "w_hyst"

\* a task enters an accessor: the arguments are checked before anything else
Call(t, c) ==
    /\ caller[t].pc \in {"idle", "done"}
    /\ app \in {"run", "d_handle", "d_mutex", "stopped"}
    /\ budget.calls > 0
    /\ budget' = [budget EXCEPT !.calls = @ - 1]
    /\ caller' = [caller EXCEPT ![t] =
          IF InvalidArg(c)
          THEN [IdleCaller EXCEPT !.pc = "done", !.op = c.op, !.channel = c.channel,
                    !.a = c.a, !.b = c.b, !.null = c.null, !.ret = "ESP_ERR_INVALID_ARG"]
          ELSE [IdleCaller EXCEPT !.pc = "take", !.op = c.op, !.channel = c.channel,
                    !.a = c.a, !.b = c.b, !.null = c.null]]
    /\ UNCHANGED <<channel_data, errors, adc_mutex, holder, task_handle, handle,
                   notify, pool, worker, nvs, app>>
    /\ Remember

\* A_take without mutual exclusion: the take succeeds although the mutex is held
A_take_unlocked(t) ==
    /\ caller[t].pc = "take"
    /\ adc_mutex
    /\ holder' = t
    /\ caller' = [caller EXCEPT ![t].pc = FirstStep(caller[t].op)]
    /\ UNCHANGED <<channel_data, errors, adc_mutex, task_handle, handle, notify,
                   pool, worker, nvs, app, budget>>
    /\ Remember

\* xSemaphoreTake(adc_mutex, wait) == pdTRUE
A_take(t) ==
    /\ caller[t].pc = "take"
    /\ adc_mutex
    /\ holder = NoHolder
    /\ holder' = t
    /\ caller' = [caller EXCEPT ![t].pc = FirstStep(caller[t].op)]
    /\ UNCHANGED <<channel_data, errors, adc_mutex, task_handle, handle, notify,
                   pool, worker, nvs, app, budget>>
    /\ Remember

\* A_take_timeout with the return value of a failed argument check
A_take_timeout_invalid_arg(t) ==
    /\ caller[t].pc = "take"
    /\ adc_mutex
    /\ holder # NoHolder
    /\ caller' = [caller EXCEPT ![t].pc = "done", ![t].ret = "ESP_ERR_INVALID_ARG"]
    /\ UNCHANGED <<channel_data, errors, adc_mutex, holder, task_handle, handle,
                   notify, pool, worker, nvs, app, budget>>
    /\ Remember

\* xSemaphoreTake(adc_mutex, wait) != pdTRUE: return ESP_ERR_TIMEOUT
A_take_timeout(t) ==
    /\ caller[t].pc = "take"
    /\ adc_mutex
    /\ holder # NoHolder
    /\ caller' = [caller EXCEPT ![t].pc = "done", ![t].ret = "ESP_ERR_TIMEOUT"]
    /\ UNCHANGED <<channel_data, errors, adc_mutex, holder, task_handle, handle,
                   notify, pool, worker, nvs, app, budget>>
    /\ Remember

\* A_read with a get_raw that clears the value it has read
A_read_clear(t) ==
    /\ caller[t].pc \in {"r_raw", "r_norm", "r_min", "r_max", "r_hyst"}
    /\ LET cd == channel_data[caller[t].channel]
           pc == caller[t].pc
       IN /\ caller' = [caller EXCEPT ![t] =
             CASE pc = "r_raw"  -> [@ EXCEPT !.out1 = <<cd.raw_value>>, !.pc = "give"]
               [] pc = "r_norm" -> [@ EXCEPT !.out1 = <<cd.normalized_value>>, !.pc = "give"]
               [] pc = "r_min"  -> [@ EXCEPT !.out1 = <<cd.min_cal>>, !.pc = "r_max"]
               [] pc = "r_max"  -> [@ EXCEPT !.out2 = <<cd.max_cal>>, !.pc = "give"]
               [] pc = "r_hyst" -> [@ EXCEPT !.out1 = <<cd.r_hyst.hysteresis>>, !.pc = "give"]]
          /\ channel_data' = IF pc = "r_raw"
                             THEN [channel_data EXCEPT ![caller[t].channel].raw_value = 0]
                             ELSE channel_data
    /\ UNCHANGED <<errors, adc_mutex, holder, task_handle, handle,
                   notify, pool, worker, nvs, app, budget>>
    /\ Remember

\* the reads of the get functions: *v = channel_data[channel]....
A_read(t) ==
    /\ caller[t].pc \in {"r_raw", "r_norm", "r_min", "r_max", "r_hyst"}
    /\ LET cd == channel_data[caller[t].channel]
           pc == caller[t].pc
       IN caller' = [caller EXCEPT ![t] =
             CASE pc = "r_raw"  -> [@ EXCEPT !.out1 = <<cd.raw_value>>, !.pc = "give"]
               [] pc = "r_norm" -> [@ EXCEPT !.out1 = <<cd.normalized_value>>, !.pc = "give"]
               [] pc = "r_min"  -> [@ EXCEPT !.out1 = <<cd.min_cal>>, !.pc = "r_max"]
               [] pc = "r_max"  -> [@ EXCEPT !.out2 = <<cd.max_cal>>, !.pc = "give"]
               [] pc = "r_hyst" -> [@ EXCEPT !.out1 = <<cd.r_hyst.hysteresis>>, !.pc = "give"]]
    /\ UNCHANGED <<channel_data, errors, adc_mutex, holder, task_handle, handle,
                   notify, pool, worker, nvs, app, budget>>
    /\ Remember

\* A_write with the configured width in place of the channel's current width
A_write_default_width(t) ==
    /\ caller[t].pc \in {"w_min", "w_max", "w_hmin", "w_hmax", "w_hyst"}
    /\ LET ch == caller[t].channel
           pc == caller[t].pc
       IN /\ channel_data' =
               CASE pc = "w_min"  -> [channel_data EXCEPT ![ch].min_cal = caller[t].a]
                 [] pc = "w_max"  -> [channel_data EXCEPT ![ch].max_cal = caller[t].b]
                 [] pc = "w_hmin" -> [channel_data EXCEPT ![ch].r_hyst.min = caller[t].a]
                 [] pc = "w_hmax" -> [channel_data EXCEPT ![ch].r_hyst.max =
                                         MIN(U32Add(caller[t].a, CONFIG_ADC_HYSTERESIS),
                                             caller[t].b)]
                 [] pc = "w_hyst" -> [channel_data EXCEPT ![ch].r_hyst.hysteresis =
                                         caller[t].a]
          /\ caller' = [caller EXCEPT ![t].pc =
               CASE pc = "w_min"  -> "w_max"
                 [] pc = "w_max"  -> "w_hmin"
                 [] pc = "w_hmin" -> "w_hmax"
                 [] pc = "w_hmax" -> "give"
                 [] pc = "w_hyst" -> "give"]
    /\ UNCHANGED <<errors, adc_mutex, holder, task_handle, handle, notify, pool,
                   worker, nvs, app, budget>>
    /\ Remember

\* the writes of the set functions, one statement each
A_write(t) ==
    /\ caller[t].pc \in {"w_min", "w_max", "w_hmin", "w_hmax", "w_hyst"}
    /\ LET ch == caller[t].channel
           pc == caller[t].pc
       IN /\ channel_data' =
               CASE pc = "w_min"  -> [channel_data EXCEPT ![ch].min_cal = caller[t].a]
                 [] pc = "w_max"  -> [channel_data EXCEPT ![ch].max_cal = caller[t].b]
                 [] pc = "w_hmin" -> [channel_data EXCEPT ![ch].r_hyst.min = caller[t].a]
                 [] pc = "w_hmax" -> [channel_data EXCEPT ![ch].r_hyst.max =
                                         MIN(U32Add(caller[t].a,
                                                    channel_data[ch].r_hyst.hysteresis),
                                             caller[t].b)]
                 [] pc = "w_hyst" -> [channel_data EXCEPT ![ch].r_hyst.hysteresis =
                                         caller[t].a]
          /\ caller' = [caller EXCEPT ![t].pc =
               CASE pc = "w_min"  -> "w_max"
                 [] pc = "w_max"  -> "w_hmin"
                 [] pc = "w_hmin" -> "w_hmax"
                 [] pc = "w_hmax" -> "give"
                 [] pc = "w_hyst" -> "give"]
    /\ UNCHANGED <<errors, adc_mutex, holder, task_handle, handle, notify, pool,
                   worker, nvs, app, budget>>
    /\ Remember

\* A_give of a set function that keeps the mutex for its save
A_give_late(t) ==
    /\ caller[t].pc = "give"
    /\ adc_mutex
    /\ holder' = IF holder = t /\ caller[t].op \in GetOps THEN NoHolder ELSE holder
    /\ caller' = [caller EXCEPT ![t] =
          IF @.op \in GetOps THEN [@ EXCEPT !.pc = "done", !.ret = "ESP_OK"]
          ELSE [@ EXCEPT !.pc = "s_min"]]
    /\ UNCHANGED <<channel_data, errors, adc_mutex, task_handle, handle, notify,
                   pool, worker, nvs, app, budget>>
    /\ Remember

\* xSemaphoreGive(adc_mutex); the get functions then return ESP_OK and the
\* set functions go on to save_channel_config
A_give(t) ==
    /\ caller[t].pc = "give"
    /\ adc_mutex
    /\ holder' = IF holder = t THEN NoHolder ELSE holder
    /\ caller' = [caller EXCEPT ![t] =
          IF @.op \in GetOps THEN [@ EXCEPT !.pc = "done", !.ret = "ESP_OK"]
          ELSE [@ EXCEPT !.pc = "s_min"]]
    /\ UNCHANGED <<channel_data, errors, adc_mutex, task_handle, handle, notify,
                   pool, worker, nvs, app, budget>>
    /\ Remember

\* A_save that puts the defaults back into the record when the store fails
A_save_rollback(t, ok) ==
    /\ caller[t].pc \in {"s_min", "s_max", "s_hyst"}
    /\ ok \/ budget.faults > 0
    /\ LET ch == caller[t].channel
           pc == caller[t].pc
           cd == channel_data[caller[t].channel]
       IN IF ok
          THEN /\ nvs' =
                    CASE pc = "s_min"  -> [nvs EXCEPT ![<<ch, "min">>] = <<cd.min_cal>>]
                      [] pc = "s_max"  -> [nvs EXCEPT ![<<ch, "max">>] = <<cd.max_cal>>]
                      [] pc = "s_hyst" -> [nvs EXCEPT ![<<ch, "hyst">>] = <<cd.r_hyst.hysteresis>>]
               /\ caller' = [caller EXCEPT ![t] =
                    CASE pc = "s_min"  -> [@ EXCEPT !.pc = "s_max",
                                                    !.saved = Append(@, cd.min_cal)]
                      [] pc = "s_max"  -> [@ EXCEPT !.pc = "s_hyst",
                                                    !.saved = Append(@, cd.max_cal)]
                      [] pc = "s_hyst" -> [@ EXCEPT !.pc = "done", !.ret = "ESP_OK",
                                                    !.saved = Append(@, cd.r_hyst.hysteresis)]]
               /\ UNCHANGED budget
          ELSE /\ caller' = [caller EXCEPT ![t].pc = "done", ![t].ret = "ESP_FAIL"]
               /\ budget' = [budget EXCEPT !.faults = @ - 1]
               /\ UNCHANGED nvs
    /\ channel_data' = IF ok THEN channel_data
                       ELSE [channel_data EXCEPT ![caller[t].channel] =
                                [@ EXCEPT !.min_cal = DefaultChannel.min_cal,
                                          !.max_cal = DefaultChannel.max_cal,
                                          !.r_hyst = DefaultChannel.r_hyst]]
    /\ UNCHANGED <<errors, adc_mutex, holder, task_handle, handle,
                   notify, pool, worker, app>>
    /\ Remember

\* save_channel_config: nvs_open and the three nvs_set_u32, each of which
\* reads the field it stores; the last step also does nvs_commit.  ok = FALSE
\* is a failure of the store at that step: the function returns its error.
\* A value set with nvs_set_u32 is what a later nvs_get_u32 of the same boot
\* returns, whether or not nvs_commit has run.
A_save(t, ok) ==
    /\ caller[t].pc \in {"s_min", "s_max", "s_hyst"}
    /\ ok \/ budget.faults > 0
    /\ LET ch == caller[t].channel
           pc == caller[t].pc
           cd == channel_data[caller[t].channel]
       IN IF ok
          THEN /\ nvs' =
                    CASE pc = "s_min"  -> [nvs EXCEPT ![<<ch, "min">>] = <<cd.min_cal>>]
                      [] pc = "s_max"  -> [nvs EXCEPT ![<<ch, "max">>] = <<cd.max_cal>>]
                      [] pc = "s_hyst" -> [nvs EXCEPT ![<<ch, "hyst">>] = <<cd.r_hyst.hysteresis>>]
               /\ caller' = [caller EXCEPT ![t] =
                    CASE pc = "s_min"  -> [@ EXCEPT !.pc = "s_max",
                                                    !.saved = Append(@, cd.min_cal)]
                      [] pc = "s_max"  -> [@ EXCEPT !.pc = "s_hyst",
                                                    !.saved = Append(@, cd.max_cal)]
                      [] pc = "s_hyst" -> [@ EXCEPT !.pc = "done", !.ret = "ESP_OK",
                                                    !.saved = Append(@, cd.r_hyst.hysteresis)]]
               /\ UNCHANGED budget
          ELSE /\ caller' = [caller EXCEPT ![t].pc = "done", ![t].ret = "ESP_FAIL"]
               /\ budget' = [budget EXCEPT !.faults = @ - 1]
               /\ UNCHANGED nvs
    /\ UNCHANGED <<channel_data, errors, adc_mutex, holder, task_handle, handle,
                   notify, pool, worker, app>>
    /\ Remember

Accessor(t, calls) ==
    \/ (\E c \in calls : Call(t, c))
    \/ A_take(t) \/ A_take_timeout(t) \/ A_read(t) \/ A_write(t) \/ A_give(t)
    \/ (\E ok \in BOOLEAN : A_save(t, ok))

(* ---------------- the running subsystem ---------------- *)

\* a step of the started subsystem, with the frames the converter may
\* deliver and the calls the other tasks may make
Step(frames, calls) ==
    \/ adc_init
    \/ (\E f \in frames : HwConvert(f))
    \/ task_adc
    \/ (\E t \in Callers : Accessor(t, calls))

Next == Step(Frames, CallSet)

Spec == Init /\ [][Next]_vars

(* ---------------- one channel's filter pipeline ---------------- *)

\* frames of one sample of channel 6 (logical channel 0)
FilterFrames == {<<Sample(6, d)>> : d \in {10, 2000, 2010, 4095}}

FilterCalls ==
    { Arg("get_normalized", 0, 0, 0, FALSE),
      Arg("set_calibration", 0, 0, 8, FALSE),
      Arg("set_hysteresis", 0, 5, 0, FALSE) }

InitFilter == InitWith([frames |-> MaxFilterFrames, calls |-> MaxFilterCalls,
                        boots |-> 1, faults |-> 0])

NextFilter == Step(FilterFrames, FilterCalls)

SpecFilter == InitFilter /\ [][NextFilter]_vars

(* ---------------- calls with bad arguments ---------------- *)

\* every accessor with the channel index ADC_MAX_CHANNELS, every get function
\* with a NULL output pointer, and two calls that take the mutex
ArgCalls ==
    { Arg(o, ADC_MAX_CHANNELS, 100, 120, FALSE) : o \in GetOps \cup SetOps }
    \cup { Arg(o, 0, 0, 0, TRUE) : o \in GetOps }
    \cup { Arg("get_calibration", 0, 0, 0, FALSE),
           Arg("set_hysteresis", 0, 1000, 0, FALSE) }

InitArgs == InitWith([frames |-> MaxFrames, calls |-> MaxCalls, boots |-> 1,
                      faults |-> 0])

NextArgs == Step(Frames, ArgCalls)

SpecArgs == InitArgs /\ [][NextArgs]_vars

(* ---------------- adc_deinit and a second adc_init ---------------- *)

\* vTaskDelete(task_handle); task_handle = NULL
D_task ==
    /\ app = "run"
    /\ app' = "d_handle"
    /\ task_handle' = FALSE
    /\ worker' = IF task_handle
                 THEN [worker EXCEPT !.pc = IF @ \in {"none", "start"} THEN "none"
                                           ELSE "deleted"]
                 ELSE worker
    /\ UNCHANGED <<channel_data, errors, adc_mutex, holder, handle, notify, pool,
                   caller, nvs, budget>>
    /\ Remember

\* adc_continuous_stop(handle); adc_continuous_deinit(handle); handle = NULL
D_handle ==
    /\ app = "d_handle"
    /\ app' = "d_mutex"
    /\ handle' = FALSE
    /\ pool' = <<>>
    /\ UNCHANGED <<channel_data, errors, adc_mutex, holder, task_handle, notify,
                   worker, caller, nvs, budget>>
    /\ Remember

\* D_mutex without the test of adc_mutex: vSemaphoreDelete(NULL) fails its
\* configASSERT
D_mutex_unguarded ==
    /\ app = "d_mutex"
    /\ IF adc_mutex
       THEN /\ app' = "stopped"
            /\ adc_mutex' = FALSE
            /\ holder' = NoHolder
            /\ UNCHANGED <<handle, worker, caller>>
       ELSE /\ Panic
            /\ UNCHANGED <<adc_mutex, holder>>
    /\ UNCHANGED <<channel_data, errors, task_handle, notify, pool, nvs, budget>>
    /\ Remember

\* vSemaphoreDelete(adc_mutex); adc_mutex = NULL
D_mutex ==
    /\ app = "d_mutex"
    /\ app' = "stopped"
    /\ adc_mutex' = FALSE
    /\ holder' = NoHolder
    /\ UNCHANGED <<channel_data, errors, task_handle, handle, notify, pool,
                   worker, caller, nvs, budget>>
    /\ Remember

adc_deinit == D_task \/ D_handle \/ D_mutex

\* xSemaphoreTake or xSemaphoreGive with adc_mutex == NULL: the configASSERT
\* of the queue handle fails
A_null_mutex(t) ==
    /\ caller[t].pc \in {"take", "give"}
    /\ ~adc_mutex
    /\ Panic
    /\ UNCHANGED <<channel_data, errors, adc_mutex, holder, task_handle, notify,
                   pool, nvs, budget>>
    /\ Remember

\* one frame of one sample of channel 6
RestartFrames == {<<Sample(6, 2000)>>}

RestartCalls ==
    { Arg("get_calibration", 0, 0, 0, FALSE),
      Arg("set_calibration", 0, 100, 120, FALSE),
      Arg("set_calibration", 0, 300, 4096, FALSE) }

InitRestart == InitWith([frames |-> MaxFrames, calls |-> MaxCalls, boots |-> MaxBoots,
                         faults |-> MaxFaults])

\* one task calls the accessors while another stops and restarts the subsystem
NextRestart ==
    \/ adc_init
    \/ (\E f \in RestartFrames : HwConvert(f))
    \/ task_adc
    \/ Accessor("t1", RestartCalls)
    \/ adc_deinit
    \/ A_null_mutex("t1")

SpecRestart == InitRestart /\ [][NextRestart]_vars

(* ---------------- adc_init that fails, adc_deinit at any time ---------------- *)

\* adc_init when xSemaphoreCreateMutex returns NULL: return pdFAIL
adc_init_no_mutex ==
    /\ app \in {"boot", "stopped", "failed"}
    /\ budget.boots > 0 /\ budget.faults > 0
    /\ budget' = [budget EXCEPT !.boots = @ - 1, !.faults = @ - 1]
    /\ adc_mutex' = FALSE
    /\ holder' = NoHolder
    /\ app' = "failed"
    /\ UNCHANGED <<channel_data, errors, task_handle, handle, notify, pool, worker,
                   caller, nvs>>
    /\ Remember

\* what ESP_ERROR_CHECK does with an error: abort, or nothing when the
\* firmware is built with NDEBUG
ErrorCheckOutcomes == {"abort", "ignored"}

\* adc_init when adc_continuous_new_handle fails in continuous_adc_init: with
\* the abort no task runs on; without it handle stays NULL, the later
\* ESP_ERROR_CHECKs are passed too and the function goes on to xTaskCreate
adc_init_hw_fail(outcome) ==
    /\ app \in {"boot", "stopped", "failed"}
    /\ budget.boots > 0 /\ budget.faults > 0
    /\ budget' = [budget EXCEPT !.boots = @ - 1, !.faults = @ - 1]
    /\ adc_mutex' = TRUE
    /\ holder' = NoHolder
    /\ IF outcome = "abort"
       THEN /\ Panic
            /\ UNCHANGED <<channel_data, errors, task_handle, notify, pool>>
       ELSE /\ handle' = FALSE
            /\ errors' = ZeroErrors
            /\ channel_data' = [ch \in Channels |-> load_channel_config(DefaultChannel, ch)]
            /\ task_handle' = TRUE
            /\ worker' = [IdleWorker EXCEPT !.pc = "start"]
            /\ notify' = 0
            /\ pool' = <<>>
            /\ app' = "run"
            /\ UNCHANGED caller
    /\ UNCHANGED nvs
    /\ Remember

\* the first step of adc_deinit when the subsystem is not running: before
\* adc_init, after an adc_init that returned pdFAIL, after an adc_deinit
D_task_early ==
    /\ app \in {"boot", "failed", "stopped"}
    /\ app' = "d_handle"
    /\ task_handle' = FALSE
    /\ worker' = IF task_handle
                 THEN [worker EXCEPT !.pc = IF @ \in {"none", "start"} THEN "none"
                                           ELSE "deleted"]
                 ELSE worker
    /\ UNCHANGED <<channel_data, errors, adc_mutex, holder, handle, notify, pool,
                   caller, nvs, budget>>
    /\ Remember

LifecycleCalls ==
    { Arg("get_calibration", 0, 0, 0, FALSE),
      Arg("set_hysteresis", 0, 5, 0, FALSE) }

InitLifecycle ==
    InitWith([frames |-> MaxFrames, calls |-> MaxLifecycleCalls, boots |-> MaxBoots,
              faults |-> MaxFaults])

NextLifecycle ==
    \/ adc_init
    \/ adc_init_no_mutex
    \/ (\E o \in ErrorCheckOutcomes : adc_init_hw_fail(o))
    \/ (\E f \in RestartFrames : HwConvert(f))
    \/ task_adc
    \/ Accessor("t1", LifecycleCalls)
    \/ D_task_early
    \/ adc_deinit
    \/ A_null_mutex("t1")

SpecLifecycle == InitLifecycle /\ [][NextLifecycle]_vars

(* ---------------- the argument checks of the set functions ---------------- *)

\* adc_set_calibration and adc_set_hysteresis with arguments on both sides of
\* every limit of their checks (-1 is 4294967295), and one get function
ValidateCalls ==
    { Arg("set_calibration", 0, x[1], x[2], FALSE) :
          x \in {<<100, 120>>, <<100, 100>>, <<120, 100>>, <<300, 4096>>,
                 <<0, 4097>>, <<5, -1>>} }
    \cup { Arg("set_calibration", ADC_MAX_CHANNELS, 100, 120, FALSE) }
    \cup { Arg("set_hysteresis", 0, w, 0, FALSE) : w \in {0, 1, 1000, 1001, -1} }
    \cup { Arg("get_hysteresis", 0, 0, 0, FALSE) }

InitValidate == InitWith([frames |-> MaxFrames, calls |-> MaxCalls, boots |-> 1,
                          faults |-> MaxFaults])

NextValidate == Step(RestartFrames, ValidateCalls)

SpecValidate == InitValidate /\ [][NextValidate]_vars

(* ---------------- the worker's failure paths ---------------- *)

WorkerCalls ==
    { Arg("get_raw", 0, 0, 0, FALSE),
      Arg("set_hysteresis", 0, 5, 0, FALSE) }

InitWorker == InitWith([frames |-> MaxWorkerFrames, calls |-> MaxWorkerCalls,
                        boots |-> 1, faults |-> MaxFaults])

NextWorker == Step(Frames, WorkerCalls)

SpecWorker == InitWorker /\ [][NextWorker]_vars

(* ---------------- frames numbered in the order of their arrival ---------------- *)

\* the frame the converter completes next: two samples of channel 6 whose
\* data grow with every sample delivered since adc_init, by more than the
\* width of the window
OrderFrame ==
    LET k == MaxOrderFrames - budget.frames
    IN <<Sample(6, 200 + (500 * k)), Sample(6, 450 + (500 * k))>>

InitOrder == InitWith([frames |-> MaxOrderFrames, calls |-> MaxOrderCalls,
                       boots |-> 1, faults |-> MaxFaults])

NextOrder == Step({OrderFrame}, WorkerCalls)

SpecOrder == InitOrder /\ [][NextOrder]_vars

(* ---------------- samples and set calls on both channels ---------------- *)

\* set calls on channel 1 and a get call on channel 0, with the frames of
\* both channels
ChannelCalls ==
    { Arg("set_calibration", 1, 100, 120, FALSE),
      Arg("set_hysteresis", 1, 5, 0, FALSE),
      Arg("get_normalized", 0, 0, 0, FALSE) }

InitChannels == InitWith([frames |-> MaxWorkerFrames, calls |-> MaxCalls,
                          boots |-> 1, faults |-> 0])

NextChannels == Step(Frames, ChannelCalls)

SpecChannels == InitChannels /\ [][NextChannels]_vars

(* ---------------- the running subsystem with its scheduler ---------------- *)

\* the steps of a task that is inside an accessor call
Proceed(t) ==
    \/ A_take(t) \/ A_take_timeout(t) \/ A_read(t) \/ A_write(t) \/ A_give(t)
    \/ (\E ok \in BOOLEAN : A_save(t, ok))

\* the FreeRTOS scheduler runs every task that is ready: task_adc and a task
\* inside an accessor call go on with their next statement; no blocking call
\* of theirs waits without a timeout except ulTaskNotifyTake.  Nothing is
\* assumed of the converter or of when the tasks call the accessors.
Scheduling ==
    /\ WF_vars(task_adc)
    /\ \A t \in Callers : WF_vars(Proceed(t))

InitLive == InitWith([frames |-> MaxFrames, calls |-> MaxCalls, boots |-> 1,
                      faults |-> MaxFaults])

NextLive == Step(Frames, WorkerCalls)

SpecLive == InitLive /\ [][NextLive]_vars /\ Scheduling

(* ======================================================================= *)
(* Properties                                                              *)
(* ======================================================================= *)

\* the worker is inside the update of one sample (between its take and give)
WorkerInUpdate == worker.pc \in {"raw", "hyst", "avg", "norm", "give"}

\* the data of the samples the converter can deliver for logical channel ch
SampleData(frames, ch) ==
    {f[i].data : <<f, i>> \in {x \in frames \X (1 .. FrameSamples) :
                                x[2] <= Len(x[1]) /\ x[1][x[2]].channel = physical_channels[ch]}}

\* the (min, max) pairs that adc_init or one adc_set_calibration of calls
\* writes to channel ch when the flash holds no saved configuration
WrittenPairs(calls, ch) ==
    {<<CONFIG_ADC_CH_MIN, CONFIG_ADC_CH_MAX>>}
    \cup {<<c.a, c.b>> : c \in {x \in calls : x.op = "set_calibration" /\ x.channel = ch
                                              /\ ~InvalidArg(x)}}

\* C1: every read of an accessor is atomic.  When a get function has done its
\* reads and still holds the mutex, what it read is what the channel record
\* holds and no sample update is half done (the stored filtered value is the
\* average of the buffer); the raw value it returns is 0 or the data of a
\* sample of that channel, and the calibration pair it returns is a pair
\* written together by adc_init or by one adc_set_calibration.
C1_AtomicReads ==
    \A t \in Callers :
        LET c == caller[t]
            cd == channel_data[c.channel]
        IN /\ (c.pc = "give" /\ c.op \in {"get_raw", "get_normalized"}) =>
                  /\ ~WorkerInUpdate
                  /\ cd.normalized_value = SumSeq(cd.r_avg.queue) \div RUNNING_AVG_SIZE
                  /\ c.out1 = (IF c.op = "get_raw" THEN <<cd.raw_value>>
                               ELSE <<cd.normalized_value>>)
           /\ (c.pc \in {"give", "done"} /\ c.op = "get_raw" /\ c.ret # "ESP_ERR_TIMEOUT") =>
                  c.out1 \in {<<d>> : d \in {0} \cup SampleData(Frames, c.channel)}
           /\ (c.pc = "give" /\ c.op = "get_calibration") =>
                  c.out1 \o c.out2 = <<cd.min_cal, cd.max_cal>>
           /\ (c.pc \in {"give", "done"} /\ c.op = "get_calibration"
                 /\ c.ret # "ESP_ERR_TIMEOUT") =>
                  c.out1 \o c.out2 \in WrittenPairs(CallSet, c.channel)

\* C1 witness: adc_get_calibration has returned a pair that adc_set_calibration
\* wrote, on a channel the worker has applied a sample to
C1_Witness ==
    \E t \in Callers :
        /\ caller[t].pc = "done" /\ caller[t].op = "get_calibration"
        /\ caller[t].ret = "ESP_OK"
        /\ caller[t].out1 \o caller[t].out2 = <<100, 120>>
        /\ channel_data[caller[t].channel].raw_value # 0

\* the positions at which an accessor is about to read or write a field of
\* channel_data
AccessPcs == {"r_raw", "r_norm", "r_min", "r_max", "r_hyst",
              "w_min", "w_max", "w_hmin", "w_hmax", "w_hyst",
              "s_min", "s_max", "s_hyst"}

\* C2: once the worker is launched, every context that reads or writes a
\* field of a channel record holds the mutex while it does (the holder is a
\* single context by construction of the variable)
C2_AccessUnderLock ==
    /\ \A t \in Callers : caller[t].pc \in AccessPcs => holder = t
    /\ worker.pc \in {"raw", "hyst", "avg", "norm"} => holder = "worker"

\* C3 (as claimed): the value adc_get_normalized reads lies within the
\* calibration bounds of the channel.  (Every run starts, after adc_init, with
\* the window [0, 40] inside the calibration [0, 4095] and a width of 40.)
C3_FilteredWithinCalibration ==
    \A t \in Callers :
        (caller[t].pc = "give" /\ caller[t].op = "get_normalized") =>
            /\ U32Le(channel_data[caller[t].channel].min_cal, caller[t].out1[1])
            /\ U32Le(caller[t].out1[1], channel_data[caller[t].channel].max_cal)

\* C4 (as claimed): whenever the mutex is free, the hysteresis window of every
\* channel lies inside its calibration range
C4_WindowInsideCalibration ==
    (app = "run" /\ holder = NoHolder) =>
        \A ch \in Channels :
            /\ U32Le(channel_data[ch].min_cal, channel_data[ch].r_hyst.min)
            /\ U32Le(channel_data[ch].r_hyst.max, channel_data[ch].max_cal)

\* C5 (as claimed): whenever the mutex is free, window_min <= window_max and
\* width >= 1 for every channel
C5_WindowOrdered ==
    (app = "run" /\ holder = NoHolder) =>
        \A ch \in Channels :
            /\ U32Le(channel_data[ch].r_hyst.min, channel_data[ch].r_hyst.max)
            /\ U32Le(1, channel_data[ch].r_hyst.hysteresis)

\* the hysteresis window of the channel the worker is updating
WWindow == channel_data[worker.ch].r_hyst

\* the sample the worker is processing lies within the window (as unsigned
\* numbers)
InWindow == U32Le(WWindow.min, worker.raw) /\ U32Le(worker.raw, WWindow.max)

\* the worker takes the running_hyst step of a sample
HystStep == worker.pc = "hyst" /\ worker'.pc = "avg"

\* C7: a sample that lies within the current window gets the window midpoint
\* window_min + (window_max - window_min) / 2 as the output of the hysteresis
\* filter and leaves the window as it is; the window is changed by nothing but
\* the hysteresis step of a sample outside it and adc_set_calibration.  Hence
\* two consecutive samples within the window, with no set operation between
\* them, both get the same midpoint.
C7_HysteresisHold ==
    [][ /\ (HystStep /\ InWindow) =>
              /\ worker'.hout = WWindow.min + ((WWindow.max - WWindow.min) \div 2)
              /\ channel_data'[worker.ch].r_hyst = WWindow
        /\ \A ch \in Channels :
              (channel_data'[ch].r_hyst.min # channel_data[ch].r_hyst.min
                 \/ channel_data'[ch].r_hyst.max # channel_data[ch].r_hyst.max) =>
                  \/ HystStep /\ worker.ch = ch /\ ~InWindow
                  \/ \E t \in Callers : /\ caller[t].pc \in {"w_hmin", "w_hmax"}
                                        /\ caller[t].channel = ch
                  \/ app' # app
      ]_vars

\* C7 witness: the third sample of a channel has been held at 2000 in the
\* window [1980, 2020], as the second was (the input 2010 gives 2000)
C7_Witness ==
    /\ worker.pc = "avg" /\ worker.raw = 2010 /\ worker.hout = 2000
    /\ WWindow.min = 1980 /\ WWindow.max = 2020
    /\ channel_data[worker.ch].r_avg.ptr = 2
    /\ channel_data[worker.ch].r_avg.queue[2] = 2000

\* the values in the average buffer of channel ch
QueueValues(ch) == {channel_data[ch].r_avg.queue[i] : i \in 1 .. RUNNING_AVG_SIZE}

\* C8: the value running_average has just returned is between the smallest
\* and the largest value held in the channel's buffer
C8_AverageBounded ==
    worker.pc = "norm" =>
        /\ \E v \in QueueValues(worker.ch) : v <= worker.avg
        /\ \E v \in QueueValues(worker.ch) : worker.avg <= v

\* C8 witness: an average strictly between the smallest and the largest slot,
\* of a buffer that holds three samples
C8_Witness ==
    /\ worker.pc = "norm"
    /\ channel_data[worker.ch].r_avg.ptr = 3
    /\ \E v \in QueueValues(worker.ch) : v < worker.avg
    /\ \E v \in QueueValues(worker.ch) : worker.avg < v

\* the smaller of two numbers
Least(a, b) == IF a <= b THEN a ELSE b

\* C9: for a sample x above the window, the hysteresis step sets
\* window_max = min(x + width/2, calibration max), window_min =
\* window_max - width if window_max > width and 0 otherwise, and outputs x;
\* and a channel with the default calibration [0, 4095] and width 40 whose
\* only sample so far is 2000 has the window [1980, 2020] and the filtered
\* value 200.
C9_UpwardSlide ==
    /\ [][ (HystStep /\ U32Lt(WWindow.max, worker.raw)) =>
              LET newmax == Least(worker.raw + (WWindow.hysteresis \div 2),
                                  channel_data[worker.ch].max_cal)
              IN /\ channel_data'[worker.ch].r_hyst.max = newmax
                 /\ channel_data'[worker.ch].r_hyst.min =
                        (IF newmax > WWindow.hysteresis
                         THEN newmax - WWindow.hysteresis ELSE 0)
                 /\ channel_data'[worker.ch].r_hyst.hysteresis = WWindow.hysteresis
                 /\ worker'.hout = worker.raw
         ]_vars
    /\ [](\A ch \in Channels :
            (/\ channel_data[ch].r_avg.ptr = 1
             /\ channel_data[ch].r_avg.queue[1] = 2000
             /\ channel_data[ch].raw_value = 2000
             /\ channel_data[ch].min_cal = 0 /\ channel_data[ch].max_cal = 4095
             /\ channel_data[ch].r_hyst.hysteresis = 40
             /\ ~(worker.pc = "norm" /\ worker.ch = ch)) =>
                /\ channel_data[ch].r_hyst.min = 1980
                /\ channel_data[ch].r_hyst.max = 2020
                /\ channel_data[ch].normalized_value = 200)

\* C9 witness: the first sample 2000 of a channel with the defaults has been
\* stored, with the window slid up to [1980, 2020]
C9_Witness ==
    \E ch \in Channels :
        /\ channel_data[ch].r_avg.ptr = 1 /\ channel_data[ch].raw_value = 2000
        /\ channel_data[ch].r_hyst = [min |-> 1980, max |-> 2020, hysteresis |-> 40]
        /\ channel_data[ch].max_cal = 4095
        /\ channel_data[ch].normalized_value = 200

\* C6 (as claimed): whenever the subsystem runs and no call is between its
\* take and its give of the mutex, every channel's calibration satisfies
\* min < max <= 4096
C6_CalibrationValid ==
    (app = "run" /\ \A t \in Callers : caller[t].pc \notin AccessPcs) =>
        \A ch \in Channels :
            /\ U32Lt(channel_data[ch].min_cal, channel_data[ch].max_cal)
            /\ U32Le(channel_data[ch].max_cal, ADC_MAX)

\* the call has a channel index that is out of range, or is a get function
\* with a NULL output pointer
BadTarget(c) ==
    /\ c.op # "none"
    /\ c.channel >= ADC_MAX_CHANNELS \/ (c.op \in GetOps /\ c.null)

\* C10: an accessor called with a channel index out of range or with a NULL
\* output pointer returns ESP_ERR_INVALID_ARG: it never waits for or takes
\* the mutex (so it never returns ESP_ERR_TIMEOUT), writes no output, and the
\* call changes nothing but the caller's own position
C10_BadTargetRejected ==
    /\ [](\A t \in Callers :
            BadTarget(caller[t]) =>
                /\ caller[t].pc \in {"done", "halt"}
                /\ caller[t].ret = "ESP_ERR_INVALID_ARG"
                /\ caller[t].out1 = NoVal /\ caller[t].out2 = NoVal
                /\ holder # t)
    /\ [][\A t \in Callers :
            (caller'[t] # caller[t] /\ BadTarget(caller'[t]) /\ app' = app) =>
                UNCHANGED <<channel_data, errors, adc_mutex, holder, task_handle,
                            handle, notify, pool, worker, nvs>>
       ]_vars

\* C10 witness: a call with the channel index ADC_MAX_CHANNELS has returned
\* ESP_ERR_INVALID_ARG while another context holds the mutex
C10_Witness ==
    \E t \in Callers :
        /\ caller[t].pc = "done" /\ caller[t].channel = ADC_MAX_CHANNELS
        /\ caller[t].ret = "ESP_ERR_INVALID_ARG"
        /\ holder \notin {NoHolder, t}

\* adc_set_calibration's arguments as the claim rejects them: the channel is
\* out of range, min >= max, or max > 4096 (unsigned 32-bit values)
CalRejected(c) ==
    \/ c.channel >= ADC_MAX_CHANNELS
    \/ ~U32Lt(c.a, c.b)
    \/ U32Lt(4096, c.b)

LockedPcs == {"r_raw", "r_norm", "r_min", "r_max", "r_hyst",
              "w_min", "w_max", "w_hmin", "w_hmax", "w_hyst", "give"}

\* C12: when adc_set_calibration(c, min, max) has made its writes and is about
\* to give the mutex, the channel has calibration [min, max], window_min = min
\* and window_max = min(min + width, max) with the channel's current width,
\* no sample update of the worker is in progress and no other accessor is
\* inside its critical section; while the call makes its writes, no other
\* context changes a channel record
C12_SetCalibrationAtomic ==
    /\ [](\A t \in Callers :
            (caller[t].op = "set_calibration" /\ caller[t].pc = "give") =>
                LET cd == channel_data[caller[t].channel]
                IN /\ holder = t
                   /\ cd.min_cal = caller[t].a /\ cd.max_cal = caller[t].b
                   /\ cd.r_hyst.min = caller[t].a
                   /\ cd.r_hyst.max = Least(caller[t].a + cd.r_hyst.hysteresis,
                                            caller[t].b)
                   /\ ~WorkerInUpdate
                   /\ \A o \in Callers \ {t} : caller[o].pc \notin LockedPcs)
    /\ [][\A t \in Callers :
            (/\ caller[t].op = "set_calibration"
             /\ caller[t].pc \in {"w_min", "w_max", "w_hmin", "w_hmax", "give"}
             /\ channel_data' # channel_data) => caller'[t] # caller[t]
       ]_vars

\* C12 witness: adc_set_calibration(0, 300, 4096) has placed the window at
\* [300, 1300] on a channel whose width another call had set to 1000
C12_Witness ==
    \E t \in Callers :
        /\ caller[t].op = "set_calibration" /\ caller[t].pc = "give"
        /\ caller[t].a = 300
        /\ channel_data[0].r_hyst = [min |-> 300, max |-> 1300, hysteresis |-> 1000]

\* adc_set_hysteresis's arguments as the claim rejects them: w = 0 or
\* w >= 1001 (unsigned 32-bit values)
WidthRejected(c) == c.a = 0 \/ U32Le(1001, c.a)

\* C13: adc_set_hysteresis on a valid channel returns ESP_ERR_INVALID_ARG
\* exactly when w = 0 or w >= 1001; a rejected call returns at once, never
\* holds the mutex and changes neither the channel records (width, window)
\* nor the store; an accepted call that has made its write has stored w as
\* the channel's width
C13_SetHysteresisValidation ==
    /\ [](\A t \in Callers :
            (caller[t].op = "set_hysteresis" /\ caller[t].channel \in Channels) =>
                /\ (caller[t].ret = "ESP_ERR_INVALID_ARG") <=> WidthRejected(caller[t])
                /\ WidthRejected(caller[t]) =>
                       caller[t].pc \in {"done", "halt"} /\ holder # t
                /\ caller[t].pc = "give" =>
                       /\ holder = t
                       /\ channel_data[caller[t].channel].r_hyst.hysteresis = caller[t].a)
    /\ [][\A t \in Callers :
            (/\ caller'[t] # caller[t] /\ app' = app
             /\ caller'[t].op = "set_hysteresis" /\ WidthRejected(caller'[t])) =>
                UNCHANGED <<channel_data, nvs, holder>>
       ]_vars

\* C13 witness: adc_set_hysteresis(0, 1001) has been rejected on a channel
\* whose width 1000 was set and saved before
C13_Witness ==
    \E t \in Callers :
        /\ caller[t].pc = "done" /\ caller[t].op = "set_hysteresis"
        /\ caller[t].a = 1001 /\ caller[t].ret = "ESP_ERR_INVALID_ARG"
        /\ channel_data[0].r_hyst.hysteresis = 1000
        /\ nvs[<<0, "hyst">>] = <<1000>>

\* C14 (as claimed): adc_set_calibration with min or max outside 0..4095
\* returns ESP_ERR_INVALID_ARG
C14_CalibrationRange ==
    \A t \in Callers :
        (/\ caller[t].op = "set_calibration"
         /\ U32Lt(4095, caller[t].a) \/ U32Lt(4095, caller[t].b)) =>
            caller[t].ret = "ESP_ERR_INVALID_ARG"

\* C15: an accessor with valid arguments that waits for the mutex either
\* takes it or returns ESP_ERR_TIMEOUT; a call that returns ESP_ERR_TIMEOUT
\* had valid arguments, never held the mutex, has written no output, and its
\* return changes no channel record, no counter and nothing in the store
C15_LockTimeout ==
    /\ [](\A t \in Callers :
            caller[t].ret = "ESP_ERR_TIMEOUT" =>
                /\ caller[t].pc \in {"done", "halt"}
                /\ ~BadTarget(caller[t])
                /\ ~(caller[t].op = "set_calibration" /\ CalRejected(caller[t]))
                /\ ~(caller[t].op = "set_hysteresis" /\ WidthRejected(caller[t]))
                /\ caller[t].out1 = NoVal /\ caller[t].out2 = NoVal
                /\ holder # t)
    /\ [][\A t \in Callers :
            (caller[t].pc = "take" /\ caller'[t] # caller[t] /\ app' = app) =>
                \/ holder = NoHolder /\ holder' = t
                \/ /\ holder # NoHolder
                   /\ caller'[t] = [caller[t] EXCEPT !.pc = "done",
                                                     !.ret = "ESP_ERR_TIMEOUT"]
                   /\ UNCHANGED <<channel_data, errors, nvs, holder>>
       ]_vars

\* C15 witness: adc_set_calibration(0, 100, 120) has returned ESP_ERR_TIMEOUT
\* and the channel has another calibration and nothing saved
C15_Witness ==
    \E t \in Callers :
        /\ caller[t].pc = "done" /\ caller[t].ret = "ESP_ERR_TIMEOUT"
        /\ caller[t].op = "set_calibration" /\ caller[t].a = 100
        /\ channel_data[0].min_cal # 100 /\ channel_data[0].r_hyst.min # 100
        /\ nvs[<<0, "min">>] = NoVal

\* C16: no step of a get function changes a channel record, a counter or the
\* store; the value adc_get_raw (adc_get_normalized) has read is the raw
\* (filtered) value the record holds; and the raw and the filtered value of
\* a channel are changed by nothing but the worker's update of a sample of
\* that channel (and adc_init).  Hence two reads with no sample applied to
\* the channel between them return the same value.
C16_ReadsIdempotent ==
    /\ [](\A t \in Callers :
            (caller[t].pc = "give" /\ caller[t].op \in {"get_raw", "get_normalized"}) =>
                caller[t].out1 =
                    (IF caller[t].op = "get_raw"
                     THEN <<channel_data[caller[t].channel].raw_value>>
                     ELSE <<channel_data[caller[t].channel].normalized_value>>))
    /\ [][ /\ \A t \in Callers :
                (caller'[t] # caller[t] /\ caller'[t].op \in GetOps /\ app' = app) =>
                    UNCHANGED <<channel_data, errors, nvs>>
           /\ \A ch \in Channels :
                (\/ channel_data'[ch].raw_value # channel_data[ch].raw_value
                 \/ channel_data'[ch].normalized_value # channel_data[ch].normalized_value) =>
                    \/ worker.ch = ch /\ worker.pc \in {"raw", "norm"} /\ worker' # worker
                    \/ app' # app
       ]_vars

\* C16 witness: two adc_get_raw(0) calls have both returned the sample 2010
C16_Witness ==
    \A t \in Callers :
        /\ caller[t].pc = "done" /\ caller[t].op = "get_raw"
        /\ caller[t].ret = "ESP_OK" /\ caller[t].out1 = <<2010>>

\* the worker leaves its adc_continuous_read
ReadStep == worker.pc = "read" /\ worker' # worker /\ app' = app

\* C17: when adc_continuous_read returns ESP_ERR_TIMEOUT the worker adds one
\* to the timeout counter only, and when it returns another error, to the
\* read-error counter only; in both cases no channel record changes, the
\* mutex is not touched, and the worker is back at ulTaskNotifyTake
C17_ReadFailure ==
    [][ (ReadStep /\ worker'.ret # "ESP_OK") =>
            /\ errors' = (IF worker'.ret = "ESP_ERR_TIMEOUT"
                          THEN [errors EXCEPT !.timeout = @ + 1]
                          ELSE [errors EXCEPT !.read_errors = @ + 1])
            /\ UNCHANGED <<channel_data, holder, pool>>
            /\ worker'.pc = "wait"
      ]_vars

\* C17 witness: after a failed read was counted, the worker has read the next
\* frame and is updating a channel with it
C17_Witness ==
    /\ errors.read_errors = 1 /\ errors.conversions = 1
    /\ worker.ret = "ESP_OK" /\ worker.pc = "norm"

\* the sample is of a physical channel that is in no entry of the table
Unmatched(smp) == \A ch \in Channels : physical_channels[ch] # smp.channel

\* C18: the worker passes over a sample of a channel that is not configured:
\* the step takes the sample off the batch and changes nothing else, neither
\* a channel record nor a counter nor the mutex
C18_UnmatchedDropped ==
    [][ (/\ worker.pc = "demux" /\ worker.batch # <<>> /\ worker' # worker
         /\ app' = app /\ Unmatched(Head(worker.batch))) =>
            /\ worker' = [worker EXCEPT !.batch = Tail(@)]
            /\ UNCHANGED <<channel_data, errors, holder, pool>>
      ]_vars

\* C18 witness: after the sample of channel 4 was passed over with every
\* record as adc_init left it, the worker updates channel 1 with the next
\* sample of the batch
C18_Witness ==
    /\ worker.pc = "raw" /\ worker.batch = <<Sample(7, 10)>> /\ worker.ch = 1
    /\ \A ch \in Channels : channel_data[ch].r_avg.ptr = 0

\* C19: the worker's xSemaphoreTake for a matched sample either takes the
\* free mutex or, the mutex being held, fails: then the sample is taken off
\* the batch, the worker goes on with the next one, and no channel record,
\* the driver's buffer and the mutex are unchanged
C19_LockFailureDrops ==
    [][ (worker.pc = "take" /\ worker' # worker /\ app' = app) =>
            \/ holder = NoHolder /\ holder' = "worker"
            \/ /\ holder # NoHolder
               /\ worker'.pc = "demux" /\ worker'.batch = Tail(worker.batch)
               /\ UNCHANGED <<channel_data, errors, holder, pool>>
      ]_vars

\* C19 witness: the worker updates channel 0 with the sample 2010 while the
\* record shows no trace of the sample 2000 before it in the batch
C19_Witness ==
    /\ worker.pc = "raw" /\ worker.raw = 2010 /\ worker.batch = <<Sample(6, 2010)>>
    /\ channel_data[0].raw_value = 0 /\ channel_data[0].r_avg.ptr = 0
    /\ channel_data[0].r_hyst.min = 0

\* C20: a step that raises the worker's notification changes no channel
\* record and no counter, neither takes nor gives the mutex, and moves no
\* task; it is enabled whoever holds the mutex
C20_CallbackOnlyNotifies ==
    [][ notify' > notify =>
            /\ notify' = notify + 1
            /\ UNCHANGED <<channel_data, errors, adc_mutex, holder, worker, caller, nvs>>
      ]_vars

\* C20 witness: the callback has raised the notification while an accessor
\* holds the mutex
C20_Witness ==
    /\ notify = 1 /\ pool # <<>>
    /\ holder \in Callers

\* the positions of an accessor inside save_channel_config
SavePcs == {"s_min", "s_max", "s_hyst"}

\* C21: a set function that is inside save_channel_config does not hold the
\* mutex (the worker and the other accessors can take it meanwhile)
C21_StoreOutsideLock ==
    \A t \in Callers : caller[t].pc \in SavePcs => holder # t

\* C21 witness: the worker holds the mutex for a sample update while
\* adc_set_calibration is in the middle of its save
C21_Witness ==
    \E t \in Callers :
        /\ caller[t].pc = "s_max" /\ caller[t].op = "set_calibration"
        /\ holder = "worker" /\ worker.pc = "hyst"

\* C22: a failure of the store ends the set function with the store's error
\* and changes no channel record (nothing is rolled back): when no other
\* task has called an accessor, the record holds the calibration, or the
\* width, the failed call has set
C22_StoreFailureKeepsUpdate ==
    /\ [](\A t \in Callers :
            (/\ caller[t].ret = "ESP_FAIL"
             /\ \A o \in Callers \ {t} : caller[o].op = "none") =>
                LET cd == channel_data[caller[t].channel]
                IN /\ caller[t].op \in SetOps /\ caller[t].pc \in {"done", "halt"}
                   /\ caller[t].op = "set_calibration" =>
                          cd.min_cal = caller[t].a /\ cd.max_cal = caller[t].b
                   /\ caller[t].op = "set_hysteresis" =>
                          cd.r_hyst.hysteresis = caller[t].a)
    /\ [][\A t \in Callers :
            (caller[t].pc \in SavePcs /\ caller'[t] # caller[t] /\ app' = app) =>
                /\ UNCHANGED <<channel_data, holder>>
                /\ caller'[t].pc = "done" => caller'[t].ret \in {"ESP_OK", "ESP_FAIL"}
                /\ caller'[t].ret = "ESP_FAIL" => nvs' = nvs
       ]_vars

\* C22 witness: adc_set_calibration(0, 100, 120) has returned the store's
\* error with nothing saved, and the channel has the calibration [100, 120]
\* and the window at 100
C22_Witness ==
    \E t \in Callers :
        /\ caller[t].pc = "done" /\ caller[t].ret = "ESP_FAIL"
        /\ caller[t].op = "set_calibration" /\ caller[t].a = 100
        /\ channel_data[0].min_cal = 100 /\ channel_data[0].max_cal = 120
        /\ channel_data[0].r_hyst.min = 100 /\ channel_data[0].r_hyst.max = 120
        /\ nvs[<<0, "min">>] = NoVal

\* the converter has been started by the worker and not been stopped: it
\* completes frames and calls s_conv_done_cb
ConverterRunning == handle /\ worker.pc \notin {"none", "start"}

\* C23 (as claimed): while the converter can call s_conv_done_cb the worker
\* exists and task_handle refers to it; and when adc_deinit has returned, the
\* worker is deleted and task_handle, handle and adc_mutex are NULL
C23_NoDanglingWake ==
    /\ ConverterRunning => task_handle /\ worker.pc # "deleted"
    /\ app = "stopped" => ~task_handle /\ ~handle /\ ~adc_mutex

\* a call of adc_init runs
InitStep == budget'.boots = budget.boots - 1

\* C24 (as claimed): an adc_init in which the mutex cannot be created or the
\* converter cannot be set up returns pdFAIL and has launched no worker
C24_InitFailureReported ==
    [][ (InitStep /\ (~adc_mutex' \/ ~handle')) =>
            /\ app' = "failed"
            /\ ~task_handle' /\ worker' = worker
      ]_vars

\* no task is inside an accessor call
CallersIdle == \A t \in Callers : caller[t].pc \in {"idle", "done"}

\* a step of adc_deinit
DeinitStep == app' # app /\ app' \in {"d_handle", "d_mutex", "stopped"}

\* C28: adc_deinit deletes the worker only when task_handle is set, stops the
\* converter only when handle is set and deletes the mutex only when
\* adc_mutex is set, and changes nothing else; it runs to its return from
\* every state before adc_init, after an adc_init that returned pdFAIL and
\* after an adc_deinit, and when it has returned all three are NULL
C28_DeinitSafe ==
    /\ [](app = "stopped" => ~task_handle /\ ~handle /\ ~adc_mutex)
    /\ [][ /\ DeinitStep =>
                /\ ~task_handle => worker' = worker /\ task_handle' = task_handle
                /\ ~handle => handle' = handle /\ pool' = pool
                /\ ~adc_mutex => adc_mutex' = adc_mutex /\ holder' = holder
                /\ UNCHANGED <<channel_data, errors, nvs, caller, notify>>
           /\ (app \in {"d_handle", "d_mutex"} /\ ~ConverterRunning /\ CallersIdle
                 /\ app' # app) => DeinitStep
      ]_vars

\* C28 witness: adc_deinit has returned after an adc_init that failed to
\* create the mutex and initialised nothing
C28_Witness ==
    /\ app = "stopped"
    /\ budget.boots = MaxBoots - 1 /\ budget.faults = MaxFaults - 1
    /\ \A ch \in Channels : channel_data[ch].max_cal = 0

\* C25 (as claimed): when the worker blocks in ulTaskNotifyTake with no
\* notification pending, and no read has failed or timed out, the driver's
\* buffer holds no sample
C25_DrainComplete ==
    (/\ worker.pc = "wait" /\ notify = 0
     /\ errors.read_errors = 0 /\ errors.timeout = 0) => pool = <<>>

\* C27 (as claimed): no counter ever decreases except in adc_init, a read
\* adds one to the counter of its result, and the step that drops a sample
\* of a channel that is not configured adds one to errors.invalid_channel
C27_CountersCountEvents ==
    [][ /\ InitStep \/ /\ errors'.conversions >= errors.conversions
                        /\ errors'.invalid_channel >= errors.invalid_channel
                        /\ errors'.read_errors >= errors.read_errors
                        /\ errors'.timeout >= errors.timeout
        /\ ReadStep =>
              errors' = (CASE worker'.ret = "ESP_OK" ->
                                [errors EXCEPT !.conversions = @ + 1]
                           [] worker'.ret = "ESP_ERR_TIMEOUT" ->
                                [errors EXCEPT !.timeout = @ + 1]
                           [] OTHER -> [errors EXCEPT !.read_errors = @ + 1])
        /\ (/\ worker.pc = "demux" /\ worker.batch # <<>> /\ worker' # worker
            /\ app' = app /\ Unmatched(Head(worker.batch))) =>
              errors' = [errors EXCEPT !.invalid_channel = @ + 1]
      ]_vars

\* the greater of two numbers
Greatest(a, b) == IF a >= b THEN a ELSE b

\* C29 (as claimed): for a sample x below the window, the hysteresis step
\* sets window_min = max(x - width/2, calibration min), the difference being
\* the one of the integers, and window_max = min(window_min + width,
\* calibration max), and outputs x
C29_DownwardSlide ==
    [][ (HystStep /\ U32Lt(worker.raw, WWindow.min)) =>
            LET newmin == Greatest(worker.raw - (WWindow.hysteresis \div 2),
                                   channel_data[worker.ch].min_cal)
            IN /\ channel_data'[worker.ch].r_hyst.min = newmin
               /\ channel_data'[worker.ch].r_hyst.max =
                      Least(newmin + WWindow.hysteresis, channel_data[worker.ch].max_cal)
               /\ worker'.hout = worker.raw
      ]_vars

\* the worker writes the raw value of a sample into the record
RawStep == worker.pc = "raw" /\ worker'.pc = "hyst"

\* C26: with samples whose data grow in the order of their arrival, every
\* sample the worker applies to a channel has greater data than the one
\* applied to that channel before it: no sample is applied twice and none
\* after a later sample of the channel
C26_UpdatesOrdered ==
    [][ RawStep => worker.raw > channel_data[worker.ch].raw_value ]_vars

\* C26 witness: the third sample, 700, has been applied right after the
\* first, 200, the second having been dropped
C26_Witness ==
    /\ channel_data[0].raw_value = 700
    /\ channel_data[0].r_avg.ptr = 2
    /\ channel_data[0].r_avg.queue[1] = 200 /\ channel_data[0].r_avg.queue[2] = 700

\* the worker takes the running_average step of a sample
AvgStep == worker.pc = "avg" /\ worker'.pc = "norm"

\* C30: the cursor of every channel is within 0 .. K - 1; a running_average
\* step writes its input into the slot at the cursor, leaves the other slots
\* as they are, advances the cursor to (cursor + 1) mod K and returns the
\* sum of the K slots divided by K, rounded down; adc_init leaves every
\* buffer zeroed with the cursor at 0
C30_AverageStep ==
    /\ [](\A ch \in Channels :
            channel_data[ch].r_avg.ptr \in 0 .. (RUNNING_AVG_SIZE - 1))
    /\ [][ /\ AvgStep =>
                LET old == channel_data[worker.ch].r_avg
                    new == channel_data'[worker.ch].r_avg
                IN /\ new.queue[old.ptr + 1] = worker.hout
                   /\ \A i \in (1 .. RUNNING_AVG_SIZE) \ {old.ptr + 1} :
                          new.queue[i] = old.queue[i]
                   /\ new.ptr = (old.ptr + 1) % RUNNING_AVG_SIZE
                   /\ worker'.avg * RUNNING_AVG_SIZE <= SumSeq(new.queue)
                   /\ SumSeq(new.queue) < (worker'.avg + 1) * RUNNING_AVG_SIZE
           /\ (InitStep /\ app' = "run") =>
                \A ch \in Channels :
                    /\ channel_data'[ch].r_avg.ptr = 0
                    /\ \A i \in 1 .. RUNNING_AVG_SIZE :
                          channel_data'[ch].r_avg.queue[i] = 0
       ]_vars

\* C30 witness: the eleventh sample of a channel has been written over the
\* first, the cursor having wrapped from K - 1 to 0
C30_Witness ==
    /\ worker.pc = "norm"
    /\ channel_data[0].r_avg.ptr = 1
    /\ channel_data[0].r_avg.queue[RUNNING_AVG_SIZE] # 0
    /\ channel_data[0].r_avg.queue[1] > channel_data[0].r_avg.queue[RUNNING_AVG_SIZE]

\* the positions at which the worker writes a field of a channel record
UpdatePcs == {"raw", "hyst", "avg", "norm"}

\* C31: a step of the worker's update of a sample of channel c, and every
\* step of adc_set_calibration or adc_set_hysteresis called on channel c,
\* leaves the whole record of every other channel as it is (raw and filtered
\* value, calibration, window, width, average buffer and cursor)
C31_ChannelsIndependent ==
    [][ /\ (worker.pc \in UpdatePcs /\ worker' # worker /\ app' = app) =>
              \A o \in Channels \ {worker.ch} : channel_data'[o] = channel_data[o]
        /\ \A t \in Callers :
              (caller'[t] # caller[t] /\ caller'[t].op \in SetOps /\ app' = app) =>
                  \A o \in Channels \ {caller'[t].channel} :
                      channel_data'[o] = channel_data[o]
      ]_vars

\* C31 witness: channel 1 has got a sample, the calibration [100, 120] and
\* the width 5, and channel 0 has its two samples, the window around them
\* and the defaults
C31_Witness ==
    /\ channel_data[1].raw_value = 10
    /\ channel_data[1].min_cal = 100 /\ channel_data[1].max_cal = 120
    /\ channel_data[1].r_hyst.hysteresis = 5
    /\ channel_data[0].raw_value = 2010 /\ channel_data[0].r_avg.ptr = 2
    /\ channel_data[0].r_hyst = [min |-> 1980, max |-> 2020,
                                 hysteresis |-> CONFIG_ADC_HYSTERESIS]
    /\ channel_data[0].min_cal = CONFIG_ADC_CH_MIN
    /\ channel_data[0].max_cal = CONFIG_ADC_CH_MAX

\* the slot of channel ch's average buffer that was written last
LastSlot(ch) ==
    channel_data[ch].r_avg.queue[
        (((channel_data[ch].r_avg.ptr + RUNNING_AVG_SIZE) - 1) % RUNNING_AVG_SIZE) + 1]

\* the stored filtered value of channel ch is the mean of its buffer
MeanStored(ch) ==
    channel_data[ch].normalized_value =
        SumSeq(channel_data[ch].r_avg.queue) \div RUNNING_AVG_SIZE

DeleteWorkerStep == task_handle /\ ~task_handle' /\ app' = "d_handle"

\* adc_deinit deletes the mutex
DeleteMutexStep == adc_mutex /\ ~adc_mutex' /\ app' = "stopped"

\* C33 (as claimed): adc_deinit does not delete the worker between the
\* worker's take and give of the mutex, and when it deletes the mutex no
\* context holds it and no accessor call is waiting for it or inside its
\* critical section
C33_QuiescentStop ==
    [][ /\ DeleteWorkerStep => ~WorkerInUpdate /\ holder # "worker"
        /\ DeleteMutexStep =>
              /\ holder = NoHolder
              /\ \A t \in Callers : caller[t].pc \notin LockedPcs \cup {"take"}
      ]_vars

\* C34 (as claimed): the (min, max, width) a set function has stored when
\* save_channel_config returns ESP_OK is a configuration the record of the
\* channel has held at some instant
C34_SavedSnapshot ==
    \A t \in Callers :
        (caller[t].op \in SetOps /\ caller[t].pc = "done" /\ caller[t].ret = "ESP_OK") =>
            /\ Len(caller[t].saved) = 3
            /\ <<caller[t].saved[1], caller[t].saved[2], caller[t].saved[3]>>
                   \in seen[caller[t].channel]

\* the store holds nothing for channel ch, or all three keys (a
\* save_channel_config has run to its end)
StoredWhole(ch) ==
    \/ \A k \in {"min", "max", "hyst"} : nvs[<<ch, k>>] = NoVal
    \/ \A k \in {"min", "max", "hyst"} : nvs[<<ch, k>>] # NoVal

\* C35 (as claimed): when adc_init has completed, with the defaults or with
\* the values a set function has saved, every channel has
\* calibration min <= window_min <= window_max <= calibration max and
\* window_max - window_min <= width
C35_WindowAfterInit ==
    [][ (InitStep /\ app' = "run" /\ \A ch \in Channels : StoredWhole(ch)) =>
            \A ch \in Channels :
                LET cd == channel_data'[ch]
                IN /\ U32Le(cd.min_cal, cd.r_hyst.min)
                   /\ U32Le(cd.r_hyst.min, cd.r_hyst.max)
                   /\ U32Le(cd.r_hyst.max, cd.max_cal)
                   /\ U32Le(U32Sub(cd.r_hyst.max, cd.r_hyst.min), cd.r_hyst.hysteresis)
      ]_vars

\* the positions of the worker outside its take .. give
WorkerUnlockedPcs == {"none", "start", "wait", "read", "demux", "take"}

\* the positions of an accessor call outside its take .. give
CallerUnlockedPcs == {"idle", "take", "done"} \cup SavePcs

\* C36: a context holds the mutex only between its take and its give: not
\* the worker when it waits for the notification, reads from the converter or
\* goes through the samples, and not a task that has returned from an
\* accessor (with any result) or is in save_channel_config; and while the
\* subsystem runs, a mutex that is held is eventually free, and the worker and
\* every call that waits for the mutex eventually stop waiting
C36_LockNeverLeaked ==
    /\ [](worker.pc \in WorkerUnlockedPcs => holder # "worker")
    /\ [](\A t \in Callers : caller[t].pc \in CallerUnlockedPcs => holder # t)
    /\ (holder # NoHolder) ~> (holder = NoHolder)
    /\ (worker.pc = "take") ~> (worker.pc # "take")
    /\ \A t \in Callers : (caller[t].pc = "take") ~> (caller[t].pc # "take")

\* C36 witness: the mutex is free, the worker has applied the two samples
\* of a frame and waits for the next notification, adc_set_hysteresis has
\* returned the error of the store and adc_get_raw has timed out on the mutex
C36_Witness ==
    /\ holder = NoHolder
    /\ worker.pc = "wait" /\ channel_data[0].raw_value = 2010
    /\ channel_data[0].r_avg.ptr = 2
    /\ \E t \in Callers :
          /\ caller[t].pc = "done" /\ caller[t].op = "set_hysteresis"
          /\ caller[t].ret = "ESP_FAIL"
    /\ \E t \in Callers :
          /\ caller[t].pc = "done" /\ caller[t].op = "get_raw"
          /\ caller[t].ret = "ESP_ERR_TIMEOUT"

=============================================================================
